---- MODULE Spec2Model ----
(***************************************************************************)
(* Model of src/models/transformer/sublayers.py: MultiHeadAttention (its   *)
(* constructor, head split/merge and forward with the incremental-decoding *)
(* key/value hand-off), Conv and PositionwiseFeedForward.                  *)
(*                                                                         *)
(* Tensors of the attention model are represented by their sequence axis:  *)
(* a tensor is a sequence of tokens, one per position; the batch, head and *)
(* depth axes are carried through forward unchanged by every step that the *)
(* attention claims are about.  A linear projection is an unknown learned  *)
(* map, modelled as an injective tagging of each token.  A softmax weight  *)
(* is represented by its support: 1 where the logit received no            *)
(* large-negative bias, 0 where it received one.                           *)
(***************************************************************************)
EXTENDS Integers, Sequences, FiniteSets, TLC

VARIABLES
    attention_type,   \* self.attention_type, set at construction
    bias_mask,        \* self.bias_mask: NoMask, or the max_len of a causal mask
    key_projected,    \* self.key_projected
    value_projected,  \* self.value_projected
    attention,        \* self.attention, the retained weights snapshot
    layer_cache,      \* the caller's layer_cache mapping
    last,             \* record of the most recent forward call (history)
    mha,              \* MultiHeadAttention.__init__: its arguments and outcome
    heads,            \* _split_heads / _merge_heads: the tensor and its stages
    conv,             \* Conv: its arguments, padding and forward result
    pff,              \* PositionwiseFeedForward.__init__: arguments and stack
    ff                \* PositionwiseFeedForward.forward on two inputs

attnVars == <<attention_type, bias_mask, key_projected, value_projected,
              attention, layer_cache, last>>

vars == <<attention_type, bias_mask, key_projected, value_projected,
          attention, layer_cache, last, mha, heads, conv, pff, ff>>

\* a component that the specification at hand does not exercise
Idle == "idle"

----------------------------------------------------------------------------
(* Bounds *)

\* length of the token stream the tensors are windows of, and so the longest
\* tensor passed to forward and the longest the cached keys grow to
MaxSeq == 3
\* largest max_len of a configured causal bias_mask
MaxLen == 3

\* None, for a tensor-valued field: the tensor with no position
None == <<>>
\* None, for bias_mask
NoMask == 0
\* layer_cache[kind] is None
NoEntry == [present |-> FALSE, key_projected |-> <<>>, value_projected |-> <<>>]
\* a tensor whose last dimension is not input_depth
Bad == <<-1>>

AttentionKinds == {"self-attention", "encoder-attention"}

\* contiguous windows a..b of the token stream 1..MaxSeq
Slices == { [i \in 1..(b - a + 1) |-> a + i - 1] : a \in 1..MaxSeq, b \in 1..MaxSeq } \ {<<>>}

Tensors == Slices \cup {Bad}

\* the values tensors passed with a keys tensor: the same window, or the
\* window one position shorter
ValuesFor(keys) ==
    {keys} \cup { v \in Slices : keys # Bad /\ v[1] = keys[1] /\ Len(v) = Len(keys) - 1 }

\* the queries tensors passed with a keys tensor: the same window (self-attention
\* use), the first token, or a tensor of the wrong depth
QueriesFor(keys) == {keys, <<1>>, Bad}

\* additive padding mask [B,1,1,n]: the last key position carries the
\* large-negative value, the others 0
PadMask(n) == [j \in 1..n |-> IF j = n THEN 1 ELSE 0]

\* the src_masks passed with a keys tensor: None, or the padding mask built for it
SrcMasksFor(keys) ==
    IF Len(keys) >= 2 THEN {None, PadMask(Len(keys))} ELSE {None}

----------------------------------------------------------------------------
(* MultiHeadAttention.forward, step by step *)

query_linear(x) == [i \in 1..Len(x) |-> <<"q", x[i]>>]
key_linear(x) == [i \in 1..Len(x) |-> <<"k", x[i]>>]
value_linear(x) == [i \in 1..Len(x) |-> <<"v", x[i]>>]

\* lines 81-101: does the call take the cached branch
CacheHit(entry) == entry.present

\* lines 81-101: are the keys/values arguments projected by this call
ProjectsKV(entry) == ~CacheHit(entry) \/ attention_type = "self-attention"

\* the cached branch taken as if every kind were self-attention
ResolveKeys_AlwaysAppend(keys, entry) ==
    IF CacheHit(entry) THEN entry.key_projected \o key_linear(keys) ELSE key_linear(keys)

\* lines 81-101: the keys the call attends to
ResolveKeys(keys, entry) ==
    IF CacheHit(entry)
    THEN IF attention_type = "self-attention"
         THEN entry.key_projected \o key_linear(keys)
         ELSE entry.key_projected
    ELSE key_linear(keys)

\* lines 81-101: the values the call attends to
ResolveValues(values, entry) ==
    IF CacheHit(entry)
    THEN IF attention_type = "self-attention"
         THEN entry.value_projected \o value_linear(values)
         ELSE entry.value_projected
    ELSE value_linear(values)

\* in-place add of a mask of shape [.., r, c] to logits of shape [.., Sq, Sk]
Broadcastable(r, c, Sq, Sk) == (r = Sq \/ r = 1) /\ (c = Sk \/ c = 1)

Min(a, b) == IF a < b THEN a ELSE b

\* bias_mask: [1, 1, L, L], large-negative above the diagonal
BiasMask(L) == [i \in 1..L |-> [j \in 1..L |-> IF j > i THEN 1 ELSE 0]]

\* the slice taken with the query and key axes exchanged
BiasSlice_Transposed(L, Sq, Sk) ==
    [i \in 1..Min(Sq, L) |-> [j \in 1..Min(Sk, L) |-> BiasMask(L)[j][i]]]

\* line 117: bias_mask[:, :, :Sq, :Sk]; a slice past the end is clipped
BiasSlice(L, Sq, Sk) ==
    [i \in 1..Min(Sq, L) |-> [j \in 1..Min(Sk, L) |-> BiasMask(L)[i][j]]]

\* element (i, j) of a mask broadcast to the logits' shape
BroadcastAt(m, i, j) ==
    m[IF Len(m) = 1 THEN 1 ELSE i][IF Len(m[1]) = 1 THEN 1 ELSE j]

\* line 107: queries *= self.query_scale
ScaleQueries(q) == [i \in 1..Len(q) |-> <<"scaled", q[i]>>]

\* line 109: logits[i][j] = q_i . k_j, no bias added yet
Logits(q, k) ==
    [i \in 1..Len(q) |-> [j \in 1..Len(k) |-> [dot |-> <<q[i], k[j]>>, src |-> 0, causal |-> 0]]]

\* lines 111-113: logits += src_masks
AddSrcMask(logits, src_masks) ==
    IF src_masks = None THEN logits
    ELSE [i \in 1..Len(logits) |-> [j \in 1..Len(logits[i]) |->
            [logits[i][j] EXCEPT !.src = src_masks[IF Len(src_masks) = 1 THEN 1 ELSE j]]]]

\* lines 116-117: logits += bias_mask[:, :, :Sq, :Sk]
AddBiasMask(logits, L) ==
    IF L = NoMask THEN logits
    ELSE LET Sq == Len(logits)
             Sk == Len(logits[1])
         IN [i \in 1..Sq |-> [j \in 1..Sk |->
               [logits[i][j] EXCEPT !.causal = BroadcastAt(BiasSlice(L, Sq, Sk), i, j)]]]

\* line 119: softmax over the key axis, by support
Softmax(logits) ==
    [i \in 1..Len(logits) |-> [j \in 1..Len(logits[i]) |->
        IF logits[i][j].src + logits[i][j].causal > 0 THEN 0 ELSE 1]]

RECURSIVE Attended(_, _, _, _)
\* the <<key, value>> pairs of the positions j..Len(row) carrying weight
Attended(row, k, v, j) ==
    IF j > Len(row) THEN <<>>
    ELSE (IF row[j] = 1 THEN << <<k[j], v[j]>> >> ELSE <<>>) \o Attended(row, k, v, j + 1)

\* lines 133-136: weighted sum of values, merge heads, output projection
Contexts(q, weights, k, v) ==
    [i \in 1..Len(q) |-> [q |-> q[i], ctx |-> Attended(weights[i], k, v, 1)]]

\* the step of forward that raises, or "none"
FailedAt(queries, keys, values, src_masks, entry) ==
    IF queries = Bad THEN "query_linear"
    ELSE IF ProjectsKV(entry) /\ keys = Bad THEN "key_linear"
    ELSE IF ProjectsKV(entry) /\ values = Bad THEN "value_linear"
    ELSE LET Sq == Len(queries)
             Sk == Len(ResolveKeys(keys, entry))
             Sv == Len(ResolveValues(values, entry))
         IN IF src_masks # None /\ ~Broadcastable(1, Len(src_masks), Sq, Sk)
            THEN "src_masks"
            ELSE IF bias_mask # NoMask
                    /\ ~Broadcastable(Min(Sq, bias_mask), Min(Sk, bias_mask), Sq, Sk)
            THEN "bias_mask"
            ELSE IF Sv # Sk THEN "contexts"
            ELSE "none"

\* the steps that raise before lines 103-104 are reached
BeforeStore == {"query_linear", "key_linear", "value_linear"}
\* the steps that raise before line 121 is reached
BeforeSoftmax == BeforeStore \cup {"src_masks", "bias_mask"}

\* the assignment moved to the end of forward
StoreKeyProjected_AtEnd(failed, keys) ==
    IF failed # "none" THEN key_projected ELSE keys

\* lines 103-104: self.key_projected after a call that raised at `failed`
StoreKeyProjected(failed, keys) ==
    IF failed \in BeforeStore THEN key_projected ELSE keys

\* lines 103-104: self.value_projected after a call that raised at `failed`
StoreValueProjected(failed, values) ==
    IF failed \in BeforeStore THEN value_projected ELSE values

\* line 121: self.attention after a call that raised at `failed`
StoreAttention(failed, weights) ==
    IF failed \in BeforeSoftmax THEN attention ELSE weights

\* forward writing the resolved projections into the entry of its kind
CacheAfterForward_Written(keys, values) ==
    [layer_cache EXCEPT ![attention_type] =
        [present |-> TRUE, key_projected |-> keys, value_projected |-> values]]

\* lines 76-137: forward assigns self.key_projected and self.value_projected;
\* no statement of it assigns layer_cache or an entry of it
CacheAfterForward(keys, values) == layer_cache

\* tokens are the positions of one stream, fed in order: keys that are
\* projected without a cached prefix start the stream, keys that are appended
\* to a cached prefix start right after its last token, and keys that the call
\* ignores are any window
Continues(entry, keys) ==
    \/ keys = Bad
    \/ ~CacheHit(entry) /\ keys[1] = 1
    \/ CacheHit(entry) /\ attention_type = "self-attention"
          /\ keys[1] = entry.key_projected[Len(entry.key_projected)][2] + 1
    \/ CacheHit(entry) /\ attention_type # "self-attention"

NoCall == [op |-> "init", ok |-> FALSE, failedAt |-> "none", withCache |-> FALSE,
           hit |-> FALSE, queries |-> <<>>, keys |-> <<>>, values |-> <<>>,
           src_masks |-> <<>>, logits |-> <<>>, weights |-> <<>>, outputs |-> <<>>]

\* lines 76-137
Forward(queries, keys, values, src_masks, withCache) ==
    LET entry == IF withCache THEN layer_cache[attention_type] ELSE NoEntry
        failed == FailedAt(queries, keys, values, src_masks, entry)
        q == ScaleQueries(query_linear(queries))
        k == ResolveKeys(keys, entry)
        v == ResolveValues(values, entry)
        logits == AddBiasMask(AddSrcMask(Logits(q, k), src_masks), bias_mask)
        weights == Softmax(logits)
    IN /\ Continues(entry, keys)
       /\ key_projected' = StoreKeyProjected(failed, k)
       /\ value_projected' = StoreValueProjected(failed, v)
       /\ attention' = StoreAttention(failed, weights)
       /\ layer_cache' = CacheAfterForward(k, v)
       /\ last' = IF failed \in BeforeStore
                  THEN [NoCall EXCEPT !.op = "forward", !.failedAt = failed,
                                      !.withCache = withCache, !.hit = CacheHit(entry)]
                  ELSE IF failed # "none"
                  THEN [NoCall EXCEPT !.op = "forward", !.failedAt = failed,
                                      !.withCache = withCache, !.hit = CacheHit(entry),
                                      !.keys = keys, !.values = values]
                  ELSE [op |-> "forward", ok |-> TRUE, failedAt |-> failed,
                        withCache |-> withCache, hit |-> CacheHit(entry),
                        queries |-> queries, keys |-> keys, values |-> values,
                        src_masks |-> src_masks,
                        logits |-> logits, weights |-> weights,
                        outputs |-> Contexts(q, weights, k, v)]
       /\ UNCHANGED <<attention_type, bias_mask, mha, heads, conv, pff, ff>>

\* the decoding loop copies the module's projections into its cache entry after
\* a step that was given the cache
StoreCache ==
    /\ last.op = "forward" /\ last.ok /\ last.withCache
    /\ layer_cache' = [layer_cache EXCEPT ![attention_type] =
          [present |-> TRUE, key_projected |-> key_projected,
           value_projected |-> value_projected]]
    /\ last' = [last EXCEPT !.op = "store"]
    /\ UNCHANGED <<attention_type, bias_mask, key_projected, value_projected, attention,
                   mha, heads, conv, pff, ff>>

\* lines 32-47: the module after construction; the caller's cache holds no entry
Init ==
    /\ attention_type \in AttentionKinds
    /\ bias_mask \in {NoMask} \cup 1..MaxLen
    /\ key_projected = None
    /\ value_projected = None
    /\ attention = None
    /\ layer_cache = [kind \in AttentionKinds |-> NoEntry]
    /\ last = NoCall
    /\ mha = Idle /\ heads = Idle /\ conv = Idle /\ pff = Idle /\ ff = Idle

ForwardCall ==
    \E keys \in Tensors, withCache \in BOOLEAN :
      \E queries \in QueriesFor(keys), values \in ValuesFor(keys),
         src_masks \in SrcMasksFor(keys) :
        Forward(queries, keys, values, src_masks, withCache)

Next == ForwardCall \/ StoreCache

Spec == Init /\ [][Next]_vars

----------------------------------------------------------------------------
(* Claims about forward and the cache *)

\* the tokens a tensor of key projections was projected from
Tokens(kp) == [i \in 1..Len(kp) |-> kp[i][2]]

\* forward(x, x, x) with no src_masks and no layer_cache, on a module with the
\* configured bias_mask: the outputs, one per position
FullSequenceOutputs(x) ==
    LET q == ScaleQueries(query_linear(x))
        k == key_linear(x)
        v == value_linear(x)
    IN Contexts(q, Softmax(AddBiasMask(Logits(q, k), bias_mask)), k, v)

\* the last call was a single-token self-attention decoding step that was given
\* the cache and found cached projections of the tokens before it
IsDecodingStep ==
    /\ attention_type = "self-attention" /\ bias_mask # NoMask
    /\ last.op = "forward" /\ last.ok /\ last.withCache /\ last.hit
    /\ Len(last.keys) = 1 /\ last.queries = last.keys /\ last.values = last.keys
    /\ last.src_masks = None
    /\ Len(key_projected) <= bias_mask

\* C1: incremental decoding equivalence. After the single-token step t of
\* causal self-attention (the cache holding the projections of tokens 1..t-1,
\* however they were fed), the step's output equals the output at position t of
\* one cache-less forward call on tokens 1..t, and its query attends to exactly
\* the key positions 1..t.
C1_IncrementalEquivalence ==
    IsDecodingStep =>
        LET t == Len(key_projected)
        IN /\ last.outputs[1] = FullSequenceOutputs(Tokens(key_projected))[t]
           /\ last.weights[1] = [j \in 1..t |-> 1]

\* the projections a forward call resolves, written out from the cache entry the
\* call was given and the arguments it was passed
ExpectedKeys(entry, hit, keys) ==
    IF ~hit THEN key_linear(keys)
    ELSE IF attention_type = "self-attention"
         THEN entry.key_projected \o key_linear(keys)
         ELSE entry.key_projected
ExpectedValues(entry, hit, values) ==
    IF ~hit THEN value_linear(values)
    ELSE IF attention_type = "self-attention"
         THEN entry.value_projected \o value_linear(values)
         ELSE entry.value_projected

\* the module's projections are the cache entry for its kind
EntryIsProjected ==
    layer_cache[attention_type] =
        [present |-> TRUE, key_projected |-> key_projected,
         value_projected |-> value_projected]

C3_CrossAttentionReusesCache ==
    [][(attention_type # "self-attention" /\ layer_cache[attention_type].present)
         => /\ layer_cache' = layer_cache
            /\ (last'.op = "forward" /\ last'.withCache
                    /\ last'.failedAt \notin BeforeStore)
                 => /\ key_projected' = layer_cache[attention_type].key_projected
                    /\ value_projected' = layer_cache[attention_type].value_projected
            /\ (last'.op = "forward" /\ last'.withCache /\ last'.ok)
                 => \A i \in 1..Len(last'.outputs) :
                      last'.outputs[i].ctx =
                        Attended(last'.weights[i],
                                 layer_cache[attention_type].key_projected,
                                 layer_cache[attention_type].value_projected, 1)]_vars

\* a cross-attention call that was passed keys other than the cached ones, after
\* the entry had been stored
C3_Witness ==
    /\ attention_type # "self-attention" /\ layer_cache[attention_type].present
    /\ last.op = "forward" /\ last.withCache /\ last.hit /\ last.ok
    /\ key_linear(last.keys) # layer_cache[attention_type].key_projected
    /\ key_projected = layer_cache[attention_type].key_projected

\* C4 as stated: a forward call that fails leaves the layer_cache and the
\* key/value state as they were before the call.
C4_FailedCallLeavesKeyValueState ==
    [][(last'.op = "forward" /\ ~last'.ok)
         => /\ layer_cache' = layer_cache
            /\ key_projected' = key_projected
            /\ value_projected' = value_projected]_vars

\* C4 amended: a forward call that fails leaves the layer_cache as it was; it
\* leaves key_projected and value_projected as they were when it fails in a
\* projection, and assigned to the resolved projections when it fails in a
\* later step.
C4_FailedCallLeavesCache ==
    [][(last'.op = "forward" /\ ~last'.ok)
         => /\ layer_cache' = layer_cache
            /\ last'.failedAt \in BeforeStore
                 => (key_projected' = key_projected /\ value_projected' = value_projected)
            /\ last'.failedAt \notin BeforeStore
                 => /\ key_projected' =
                         ExpectedKeys(layer_cache[attention_type], last'.hit, last'.keys)
                    /\ value_projected' =
                         ExpectedValues(layer_cache[attention_type], last'.hit, last'.values)]_vars

\* a call given a populated cache failed after the projections were resolved
C4_Witness ==
    /\ last.op = "forward" /\ ~last.ok /\ last.withCache /\ last.hit
    /\ last.failedAt \in {"src_masks", "bias_mask", "contexts"}
    /\ key_projected # layer_cache[attention_type].key_projected

\* the causal bias sits on exactly the future key positions of the last call's
\* logits, and the softmax gives those positions no weight
CausalWindow ==
    \A i \in 1..Len(last.logits) : \A j \in 1..Len(last.logits[i]) :
        /\ j > i => (last.logits[i][j].causal = 1 /\ last.weights[i][j] = 0)
        /\ j <= i => last.logits[i][j].causal = 0

\* C6 as stated: in every forward call of a module with a causal bias_mask the
\* bias is added to logit (i, j) for every j > i of the [Sq, Sk] window and to
\* no logit with j <= i.
C6_CausalBiasEveryCall ==
    (bias_mask # NoMask /\ last.op = "forward" /\ last.ok) => CausalWindow

\* C6 amended: the same, for the calls whose [Sq, Sk] window lies inside the
\* mask (Sq <= max_len and Sk <= max_len).
C6_CausalBiasInsideMask ==
    (bias_mask # NoMask /\ last.op = "forward" /\ last.ok
        /\ Len(last.logits) <= bias_mask /\ Len(last.logits[1]) <= bias_mask)
      => CausalWindow

\* a call with several queries and several keys inside the mask
C6_Witness ==
    /\ bias_mask # NoMask /\ last.op = "forward" /\ last.ok
    /\ Len(last.logits) >= 2 /\ Len(last.logits[1]) >= 2
    /\ Len(last.logits) <= bias_mask /\ Len(last.logits[1]) <= bias_mask

----------------------------------------------------------------------------
(* MultiHeadAttention.__init__ *)

\* largest total_key_depth / total_value_depth / tensor depth tried
MaxDepth == 6
\* largest num_heads tried
MaxHeads == 4

\* only the key depth tested
DivisibilityError_KeyOnly(total_key_depth, total_value_depth, num_heads) ==
    total_key_depth % num_heads # 0

\* lines 25-30: the two checks that raise ValueError
DivisibilityError(total_key_depth, total_value_depth, num_heads) ==
    \/ total_key_depth % num_heads # 0
    \/ total_value_depth % num_heads # 0

\* line 33: query_scale = (total_key_depth // num_heads) ** -0.5, represented by
\* the integer under the power
QueryScaleBase(total_key_depth, num_heads) == total_key_depth \div num_heads

MhaInit ==
    /\ mha \in [total_key_depth : 1..MaxDepth, total_value_depth : 1..MaxDepth,
                num_heads : 1..MaxHeads, outcome : {"args"}, query_scale_base : {0}]
    /\ attention_type = Idle /\ bias_mask = Idle /\ key_projected = Idle
    /\ value_projected = Idle /\ attention = Idle /\ layer_cache = Idle
    /\ last = Idle /\ heads = Idle /\ conv = Idle /\ pff = Idle /\ ff = Idle

\* lines 22-47
MhaConstruct ==
    /\ mha.outcome = "args"
    /\ mha' = IF DivisibilityError(mha.total_key_depth, mha.total_value_depth, mha.num_heads)
              THEN [mha EXCEPT !.outcome = "ValueError"]
              ELSE [mha EXCEPT !.outcome = "constructed",
                               !.query_scale_base =
                                   QueryScaleBase(mha.total_key_depth, mha.num_heads)]
    /\ UNCHANGED <<attention_type, bias_mask, key_projected, value_projected,
                   attention, layer_cache, last, heads, conv, pff, ff>>

MhaNext == MhaConstruct

SpecMha == MhaInit /\ [][MhaNext]_vars

\* h divides n
Divides(h, n) == \E m \in 1..n : m * h = n

\* C5: construction fails with ValueError exactly when num_heads does not divide
\* total_key_depth or does not divide total_value_depth; when it succeeds,
\* query_scale is q ** -0.5 for the exact quotient q = total_key_depth / num_heads.
C5_ConstructionChecksDivisibility ==
    mha.outcome # "args" =>
        /\ mha.outcome = "ValueError" <=>
              ~(Divides(mha.num_heads, mha.total_key_depth)
                  /\ Divides(mha.num_heads, mha.total_value_depth))
        /\ mha.outcome = "constructed" =>
              mha.query_scale_base * mha.num_heads = mha.total_key_depth

\* construction was refused for the value depth alone
C5_Witness ==
    /\ mha.outcome = "ValueError"
    /\ Divides(mha.num_heads, mha.total_key_depth)
    /\ mha.num_heads > 1

----------------------------------------------------------------------------
(* _split_heads and _merge_heads on strided tensors *)

\* largest batch size tried
MaxBatch == 2

RECURSIVE Product(_, _)
\* the product of shape[i..Len(shape)]
Product(shape, i) == IF i > Len(shape) THEN 1 ELSE shape[i] * Product(shape, i + 1)

Numel(shape) == Product(shape, 1)

\* the strides of a contiguous (row-major) tensor of this shape
RowMajor(shape) == [i \in 1..Len(shape) |-> Product(shape, i + 1)]

RECURSIVE Offset(_, _, _)
\* the storage offset of the element at the 0-based index idx
Offset(stride, idx, i) ==
    IF i > Len(idx) THEN 0 ELSE idx[i] * stride[i] + Offset(stride, idx, i + 1)

Elem(t, idx) == t.storage[1 + Offset(t.stride, idx, 1)]

\* the 0-based index of the n-th element (n from 0) in row-major order
Unflatten(n, shape) ==
    [i \in 1..Len(shape) |-> (n \div Product(shape, i + 1)) % shape[i]]

IsContiguous(t) == t.stride = RowMajor(t.shape)

\* Tensor.view: the same storage read with another shape
View(t, shape) == [shape |-> shape, stride |-> RowMajor(shape), storage |-> t.storage]

\* Tensor.permute: axis i of the result is axis perm[i] of t, storage shared
Permute(t, perm) ==
    [shape |-> [i \in 1..Len(perm) |-> t.shape[perm[i]]],
     stride |-> [i \in 1..Len(perm) |-> t.stride[perm[i]]],
     storage |-> t.storage]

\* Tensor.contiguous: the elements copied out in row-major order
Contiguous(t) ==
    [shape |-> t.shape, stride |-> RowMajor(t.shape),
     storage |-> [n \in 1..Numel(t.shape) |-> Elem(t, Unflatten(n - 1, t.shape))]]

\* lines 58-61: does _split_heads raise (rank, or a view of another size)
SplitRaises(x, num_heads) ==
    \/ Len(x.shape) # 3
    \/ x.shape[1] * x.shape[2] * num_heads * (x.shape[3] \div num_heads) # Numel(x.shape)

\* line 61
split_heads(x, num_heads) ==
    Permute(View(x, <<x.shape[1], x.shape[2], num_heads, x.shape[3] \div num_heads>>),
            <<1, 3, 2, 4>>)

\* the head and sequence axes flattened without exchanging them back
merge_heads_NoPermute(x, num_heads) ==
    View(Contiguous(x), <<x.shape[1], x.shape[3], x.shape[4] * num_heads>>)

\* line 74
merge_heads(x, num_heads) ==
    View(Contiguous(Permute(x, <<1, 3, 2, 4>>)),
         <<x.shape[1], x.shape[3], x.shape[4] * num_heads>>)

\* the contents tried for a tensor of n elements
Storages(n) == { [i \in 1..n |-> i], [i \in 1..n |-> (i * i) % 3] }

InputTensors ==
    { [shape |-> <<b, l, d>>, stride |-> RowMajor(<<b, l, d>>), storage |-> st] :
        b \in 1..MaxBatch, l \in 1..MaxSeq, d \in 1..MaxDepth,
        st \in UNION { Storages(n) : n \in 1..(MaxBatch * MaxSeq * MaxDepth) } }

HeadsInit ==
    /\ heads \in { [x |-> x, num_heads |-> h, stage |-> "input", y |-> x] :
                     x \in { t \in InputTensors : Len(t.storage) = Numel(t.shape) },
                     h \in 1..MaxHeads }
    /\ attention_type = Idle /\ bias_mask = Idle /\ key_projected = Idle
    /\ value_projected = Idle /\ attention = Idle /\ layer_cache = Idle
    /\ last = Idle /\ mha = Idle /\ conv = Idle /\ pff = Idle /\ ff = Idle

HeadsUnchanged ==
    UNCHANGED <<attention_type, bias_mask, key_projected, value_projected,
                attention, layer_cache, last, mha, conv, pff, ff>>

\* lines 49-61
SplitHeads ==
    /\ heads.stage = "input"
    /\ heads' = IF SplitRaises(heads.x, heads.num_heads)
                THEN [heads EXCEPT !.stage = "error"]
                ELSE [heads EXCEPT !.stage = "split",
                                   !.y = split_heads(heads.x, heads.num_heads)]
    /\ HeadsUnchanged

\* lines 63-74
MergeHeads ==
    /\ heads.stage = "split"
    /\ heads' = [heads EXCEPT !.stage = "merged",
                              !.y = merge_heads(heads.y, heads.num_heads)]
    /\ HeadsUnchanged

HeadsNext == SplitHeads \/ MergeHeads

SpecHeads == HeadsInit /\ [][HeadsNext]_vars

\* C10: for x of shape [B, S, D] with D divisible by num_heads, the split tensor
\* has shape [B, H, S, D/H] and holds x[b, s, d] at [b, d div (D/H), s, d mod (D/H)],
\* and merge of it has shape [B, S, D] and the value of x at every index.
C10_SplitMergeRoundTrip ==
    LET B == heads.x.shape[1]
        S == heads.x.shape[2]
        D == heads.x.shape[3]
        H == heads.num_heads
        Indices == { <<b, l, d>> : b \in 0..(B - 1), l \in 0..(S - 1), d \in 0..(D - 1) }
    IN Divides(H, D) =>
        /\ heads.stage # "error"
        /\ heads.stage = "split" =>
              /\ heads.y.shape = <<B, H, S, D \div H>>
              /\ \A idx \in Indices :
                    Elem(heads.x, idx) =
                      Elem(heads.y, <<idx[1], idx[3] \div (D \div H), idx[2], idx[3] % (D \div H)>>)
        /\ heads.stage = "merged" =>
              /\ heads.y.shape = <<B, S, D>>
              /\ IsContiguous(heads.y)
              /\ \A idx \in Indices : Elem(heads.y, idx) = Elem(heads.x, idx)

\* a tensor with several positions, heads and channels per head went through
\* split and merge
C10_Witness ==
    /\ heads.stage = "merged"
    /\ heads.num_heads >= 2 /\ heads.x.shape[2] >= 2
    /\ heads.x.shape[3] >= 2 * heads.num_heads
    /\ heads.x.storage[2] # heads.x.storage[1]

----------------------------------------------------------------------------
(* Conv *)

\* largest kernel_size tried
MaxKernel == 4
\* longest input sequence of Conv and PositionwiseFeedForward tried
MaxInput == 3

PadTypes == {"left", "both"}

\* the same number of zeros on both sides
ConvPadding_Symmetric(kernel_size, pad_type) ==
    IF pad_type = "left" THEN <<kernel_size - 1, 0>>
    ELSE <<kernel_size \div 2, kernel_size \div 2>>

\* both-sided padding whatever the pad_type
ConvPadding_IgnoresLeft(kernel_size, pad_type) ==
    <<kernel_size \div 2, (kernel_size - 1) \div 2>>

\* line 156
ConvPadding(kernel_size, pad_type) ==
    IF pad_type = "left" THEN <<kernel_size - 1, 0>>
    ELSE <<kernel_size \div 2, (kernel_size - 1) \div 2>>

Zeros(n) == [i \in 1..n |-> 0]

\* line 157: nn.ConstantPad1d(padding, 0) along the sequence axis
Pad(padding, inputs) == Zeros(padding[1]) \o inputs \o Zeros(padding[2])

\* line 158: the learned kernel and bias of nn.Conv1d, one channel; a fixed choice
\* with every tap non-zero
ConvWeight(kernel_size) == [i \in 1..kernel_size |-> IF i % 2 = 1 THEN i ELSE -i]
ConvBias == 0

RECURSIVE Dot(_, _, _, _)
\* w[i..] . padded[t + i - 1 ..]
Dot(w, padded, t, i) ==
    IF i > Len(w) THEN 0 ELSE w[i] * padded[t + i - 1] + Dot(w, padded, t, i + 1)

\* lines 160-164: pad, then a convolution with no padding of its own
ConvForward(kernel_size, pad_type, inputs) ==
    LET padded == Pad(ConvPadding(kernel_size, pad_type), inputs)
    IN [t \in 1..(Len(padded) - kernel_size + 1) |->
          ConvBias + Dot(ConvWeight(kernel_size), padded, t, 1)]

RECURSIVE SeqsOver(_, _)
\* the sequences of length n over the set vals
SeqsOver(vals, n) ==
    IF n = 0 THEN {<<>>}
    ELSE { Append(x, v) : x \in SeqsOver(vals, n - 1), v \in vals }

InputValues == {0, 1}
InputSeqs == UNION { SeqsOver(InputValues, n) : n \in 1..MaxInput }

ConvInit ==
    /\ conv \in [kernel_size : 1..MaxKernel, pad_type : PadTypes, inputs : InputSeqs,
                 stage : {"args"}, padding : {<<0, 0>>}, outputs : {<<>>}]
    /\ attention_type = Idle /\ bias_mask = Idle /\ key_projected = Idle
    /\ value_projected = Idle /\ attention = Idle /\ layer_cache = Idle
    /\ last = Idle /\ mha = Idle /\ heads = Idle /\ pff = Idle /\ ff = Idle

ConvUnchanged ==
    UNCHANGED <<attention_type, bias_mask, key_projected, value_projected,
                attention, layer_cache, last, mha, heads, pff, ff>>

\* lines 146-158
ConvConstruct ==
    /\ conv.stage = "args"
    /\ conv' = [conv EXCEPT !.stage = "constructed",
                            !.padding = ConvPadding(conv.kernel_size, conv.pad_type)]
    /\ ConvUnchanged

\* lines 160-164
ConvCall ==
    /\ conv.stage = "constructed"
    /\ conv' = [conv EXCEPT !.stage = "called",
                            !.outputs = ConvForward(conv.kernel_size, conv.pad_type,
                                                    conv.inputs)]
    /\ ConvUnchanged

ConvNext == ConvConstruct \/ ConvCall

SpecConv == ConvInit /\ [][ConvNext]_vars

\* floor(n / 2) and ceil(n / 2), by their defining inequalities
Floor2(n) == CHOOSE m \in 0..n : 2 * m <= n /\ n < 2 * m + 2
Ceil2(n) == CHOOSE m \in 0..(n + 1) : 2 * m >= n /\ 2 * m < n + 2

\* C8 as stated: 'both' pads floor(kernel_size/2) on the left and
\* ceil((kernel_size-1)/2) on the right; 'left' pads kernel_size-1 on the left
\* and 0 on the right.
C8_PaddingCeilRight ==
    conv.stage # "args" =>
        /\ conv.pad_type = "left" => conv.padding = <<conv.kernel_size - 1, 0>>
        /\ conv.pad_type = "both" =>
              conv.padding = <<Floor2(conv.kernel_size), Ceil2(conv.kernel_size - 1)>>

\* C8 amended: 'both' pads floor(kernel_size/2) on the left and
\* floor((kernel_size-1)/2) on the right; 'left' pads kernel_size-1 on the left
\* and 0 on the right; either way kernel_size-1 zeros in all, so the output is
\* as long as the input.
C8_PaddingFloorRight ==
    /\ conv.stage # "args" =>
        /\ conv.pad_type = "left" => conv.padding = <<conv.kernel_size - 1, 0>>
        /\ conv.pad_type = "both" =>
              conv.padding = <<Floor2(conv.kernel_size), Floor2(conv.kernel_size - 1)>>
        /\ conv.padding[1] + conv.padding[2] = conv.kernel_size - 1
    /\ conv.stage = "called" => Len(conv.outputs) = Len(conv.inputs)

\* a centred convolution with an even kernel was applied
C8_Witness ==
    /\ conv.stage = "called" /\ conv.pad_type = "both"
    /\ conv.kernel_size % 2 = 0 /\ conv.kernel_size >= 2
    /\ Len(conv.inputs) >= 2

----------------------------------------------------------------------------
(* PositionwiseFeedForward.__init__ *)

\* longest layer_config tried
MaxLayers == 3
\* largest input_depth / filter_size / output_depth tried
MaxDim == 2

\* the characters of a layer_config: the two the constructor knows, and another
ConfigChars == {"l", "c", "x"}
LayerConfigs == UNION { SeqsOver(ConfigChars, n) : n \in 0..MaxLayers }

\* Python's list * n: n copies, none when n <= 0
Repeat(x, n) == [i \in 1..(IF n > 0 THEN n ELSE 0) |-> x]

\* one interior pair too many
Sizes_OneMore(layer_config, input_depth, filter_size, output_depth) ==
    << <<input_depth, filter_size>> >>
        \o Repeat(<<filter_size, filter_size>>, Len(layer_config) - 1)
        \o << <<filter_size, output_depth>> >>

\* lines 187-189
Sizes(layer_config, input_depth, filter_size, output_depth) ==
    << <<input_depth, filter_size>> >>
        \o Repeat(<<filter_size, filter_size>>, Len(layer_config) - 2)
        \o << <<filter_size, output_depth>> >>

\* line 191: zip(list(layer_config), sizes) stops with the shorter of the two
ZipLen(layer_config, sizes) == Min(Len(layer_config), Len(sizes))

PffInit ==
    /\ pff \in [layer_config : LayerConfigs, input_depth : 1..MaxDim,
                filter_size : 1..MaxDim, output_depth : 1..MaxDim,
                outcome : {"args"}, layers : {<<>>}]
    /\ attention_type = Idle /\ bias_mask = Idle /\ key_projected = Idle
    /\ value_projected = Idle /\ attention = Idle /\ layer_cache = Idle
    /\ last = Idle /\ mha = Idle /\ heads = Idle /\ conv = Idle /\ ff = Idle

\* lines 184-201
PffConstruct ==
    /\ pff.outcome = "args"
    /\ LET sizes == Sizes(pff.layer_config, pff.input_depth, pff.filter_size,
                          pff.output_depth)
           n == ZipLen(pff.layer_config, sizes)
       IN pff' = IF \E i \in 1..n : pff.layer_config[i] \notin {"l", "c"}
                 THEN [pff EXCEPT !.outcome = "ValueError"]
                 ELSE [pff EXCEPT !.outcome = "constructed",
                         !.layers = [i \in 1..n |->
                            [kind |-> pff.layer_config[i],
                             in_features |-> sizes[i][1],
                             out_features |-> sizes[i][2]]]]
    /\ UNCHANGED <<attention_type, bias_mask, key_projected, value_projected,
                   attention, layer_cache, last, mha, heads, conv, ff>>

PffNext == PffConstruct

SpecPff == PffInit /\ [][PffNext]_vars

\* one sublayer per character; the first maps input_depth -> filter_size, the
\* interior ones filter_size -> filter_size, the final one filter_size -> output_depth
StackShape ==
    LET n == Len(pff.layers)
    IN /\ n = Len(pff.layer_config)
       /\ n >= 1 =>
            /\ pff.layers[1].in_features = pff.input_depth
            /\ pff.layers[1].out_features = pff.filter_size
            /\ pff.layers[n].in_features = pff.filter_size
            /\ pff.layers[n].out_features = pff.output_depth
            /\ \A i \in 2..(n - 1) :
                  /\ pff.layers[i].in_features = pff.filter_size
                  /\ pff.layers[i].out_features = pff.filter_size

\* C7 as stated: for every layer_config the constructor accepts, whatever its
\* length, the stack has the shape above.
C7_StackShapeAnyLength ==
    pff.outcome = "constructed" => StackShape

\* C7 amended: for every layer_config of length 2 or more that the constructor
\* accepts, the stack has the shape above; a layer_config of one character
\* gives the single sublayer input_depth -> filter_size.
C7_StackShapeFromTwo ==
    pff.outcome = "constructed" =>
        /\ Len(pff.layer_config) >= 2 => StackShape
        /\ Len(pff.layer_config) = 1 =>
              /\ Len(pff.layers) = 1
              /\ pff.layers[1].in_features = pff.input_depth
              /\ pff.layers[1].out_features = pff.filter_size

\* a stack with an interior sublayer and three depths that are not all equal
C7_Witness ==
    /\ pff.outcome = "constructed" /\ Len(pff.layer_config) >= 3
    /\ pff.input_depth # pff.filter_size /\ pff.filter_size # pff.output_depth

----------------------------------------------------------------------------
(* PositionwiseFeedForward.forward *)

\* line 195: kernel_size=3
KernelSize == 3

\* line 193: the learned weight and bias of nn.Linear, one channel; a fixed choice
LinearWeight == 2
LinearBias == -1

\* line 193: nn.Linear applied at every position
LinearForward(inputs) == [t \in 1..Len(inputs) |-> LinearWeight * inputs[t] + LinearBias]

\* line 200
Relu(x) == [t \in 1..Len(x) |-> IF x[t] > 0 THEN x[t] ELSE 0]

\* line 201: nn.Dropout with the default dropout=0.0
Dropout(x) == x

RECURSIVE FfForward(_, _, _, _)
\* lines 203-211: sublayers i..Len(layer_config) applied to x, each followed by
\* relu and dropout (i < len(self.layers) holds for every i of the loop)
FfForward(layer_config, padding, x, i) ==
    IF i > Len(layer_config) THEN x
    ELSE LET y == IF layer_config[i] = "l" THEN LinearForward(x)
                  ELSE ConvForward(KernelSize, padding, x)
         IN FfForward(layer_config, padding, Dropout(Relu(y)), i + 1)

FfConfigs == UNION { SeqsOver({"l", "c"}, n) : n \in 1..MaxLayers }

FfInit ==
    /\ ff \in { [layer_config |-> lc, padding |-> pad, x |-> x, y |-> y,
                  stage |-> "constructed", out_x |-> <<>>, out_y |-> <<>>] :
                 lc \in FfConfigs, pad \in PadTypes,
                 x \in InputSeqs, y \in InputSeqs }
    /\ Len(ff.x) = Len(ff.y)
    /\ attention_type = Idle /\ bias_mask = Idle /\ key_projected = Idle
    /\ value_projected = Idle /\ attention = Idle /\ layer_cache = Idle
    /\ last = Idle /\ mha = Idle /\ heads = Idle /\ conv = Idle /\ pff = Idle

\* lines 203-211, on the two inputs
FfCall ==
    /\ ff.stage = "constructed"
    /\ ff' = [ff EXCEPT !.stage = "called",
                        !.out_x = FfForward(ff.layer_config, ff.padding, ff.x, 1),
                        !.out_y = FfForward(ff.layer_config, ff.padding, ff.y, 1)]
    /\ UNCHANGED <<attention_type, bias_mask, key_projected, value_projected,
                   attention, layer_cache, last, mha, heads, conv, pff>>

FfNext == FfCall

SpecFf == FfInit /\ [][FfNext]_vars

AllConv(layer_config) == \A i \in 1..Len(layer_config) : layer_config[i] = "c"

\* C9: a stack of 'c' sublayers built with padding 'left' gives an output as long
\* as the input, and two inputs that agree on the positions <= t give the same
\* output at t.
C9_LeftPaddingIsCausal ==
    (ff.stage = "called" /\ ff.padding = "left" /\ AllConv(ff.layer_config)) =>
        /\ Len(ff.out_x) = Len(ff.x)
        /\ Len(ff.out_y) = Len(ff.y)
        /\ \A t \in 1..Len(ff.x) :
              (\A u \in 1..t : ff.x[u] = ff.y[u]) => ff.out_x[t] = ff.out_y[t]

\* two 'c' sublayers were applied to inputs that differ only after position 1,
\* and the outputs differ somewhere
C9_Witness ==
    /\ ff.stage = "called" /\ ff.padding = "left" /\ AllConv(ff.layer_config)
    /\ Len(ff.layer_config) >= 2 /\ Len(ff.x) >= 3
    /\ ff.x[1] = ff.y[1] /\ ff.x[2] # ff.y[2]
    /\ ff.out_x # ff.out_y

====
